---- MODULE Spec2Model ----
(***************************************************************************)
(* preciazo: the dia extractor (scraper/dia.ts), the precios table and the *)
(* product page's load handler, as a state machine.                        *)
(*                                                                         *)
(* An optional value (undefined / null / a nullable column) is a sequence  *)
(* of length at most one: None is absent, Some(v) is present.  A string    *)
(* that the program parses (the price meta content) is a sequence of       *)
(* one-character strings; a string it only passes on or compares (the EAN, *)
(* the availability, the name) is a string.                                *)
(***************************************************************************)
EXTENDS Integers, Sequences, FiniteSets, TLC

None == <<>>
Some(v) == <<v>>
IsSome(o) == Len(o) > 0
Val(o) == o[1]

(***************************************************************************)
(* Bounds of the model.                                                    *)
(***************************************************************************)
\* rows the table holds at most
MaxRows == 3
\* the latest timestamp the fetcher stamps
MaxTime == 3

(***************************************************************************)
(* Input domains.                                                          *)
(***************************************************************************)
EanProp == "product:retailer_item_id"
PriceProp == "product:price:amount"
InStockSentinel == "http://schema.org/InStock"
OutOfStockSentinel == "http://schema.org/OutOfStock"

EANs == {"7790001", "7790002"}

\* content of the EAN meta tag: no tag, an empty content, an EAN
EanMetas == {None, Some("")} \cup {Some(e) : e \in EANs}

\* content of the price meta tag: no tag, or a text
PriceTexts ==
  { <<"1", "9", "9", ".", "9", "0">>,
    <<"1", "2", ".", "3", "4">>,
    <<"0", ".", "0", "0">>,
    <<"7">>,
    <<"0", ".", "0", "0", "5">>,
    <<"-", "5", ".", "0", "0">>,
    <<"a", "b", "c">>,
    <<"1", ".", "2", ".", "3">>,
    <<>> }
PriceMetas == {None} \cup {Some(p) : p \in PriceTexts}

\* one entry of ld.offers.offers: its availability may be missing
Availabilities == {None, Some(InStockSentinel), Some(OutOfStockSentinel)}
Offer(a) == [availability |-> a]
OfferLists ==
  {<<>>} \cup {<<Offer(a)>> : a \in Availabilities}
         \cup {<<Offer(a), Offer(b)>> : a, b \in Availabilities}

\* the JSON-LD script node: none, a text that is no JSON, or a JSON object
\* whose offers, and offers.offers, may be missing
LdMissing == [kind |-> "missing", offers |-> None]
LdUnparseable == [kind |-> "unparseable", offers |-> None]
LdJson(o) == [kind |-> "json", offers |-> o]
LdBlocks ==
  {LdMissing, LdUnparseable, LdJson(None), LdJson(Some([offers |-> None]))}
    \cup {LdJson(Some([offers |-> Some(l)])) : l \in OfferLists}

\* a parsed document: its meta tags by property, and its JSON-LD node
Dom(e, p, l) == [meta |-> [x \in {EanProp, PriceProp} |->
                             IF x = EanProp THEN e ELSE p],
                 ld |-> l]
Docs == {Dom(e, p, l) : e \in EanMetas, p \in PriceMetas, l \in LdBlocks}

(***************************************************************************)
(* Results: a value or a thrown error.                                     *)
(***************************************************************************)
Ok(v) == [error |-> "none", value |-> Some(v)]
Throw(e) == [error |-> e, value |-> None]
IsOk(r) == r.error = "none"

(***************************************************************************)
(* Extraction toolkit (common.js).                                         *)
(***************************************************************************)
getMetaProp(dom, prop) == dom.meta[prop]

DigitChars == {"0", "1", "2", "3", "4", "5", "6", "7", "8", "9"}
Digit(c) ==
  CASE c = "0" -> 0 [] c = "1" -> 1 [] c = "2" -> 2 [] c = "3" -> 3
    [] c = "4" -> 4 [] c = "5" -> 5 [] c = "6" -> 6 [] c = "7" -> 7
    [] c = "8" -> 8 [] c = "9" -> 9

IsDigits(s) == Len(s) > 0 /\ \A i \in 1..Len(s) : s[i] \in DigitChars

RECURSIVE DigitsValue(_)
DigitsValue(s) ==
  IF Len(s) = 0 THEN 0
  ELSE DigitsValue(SubSeq(s, 1, Len(s) - 1)) * 10 + Digit(s[Len(s)])

RECURSIVE Pow10(_)
Pow10(k) == IF k = 0 THEN 1 ELSE 10 * Pow10(k - 1)

\* a decimal amount: an optional sign, digits, optionally a point and digits
Negative(s) == Len(s) > 0 /\ s[1] = "-"
Unsigned(s) == IF Negative(s) THEN Tail(s) ELSE s
Points(s) == {i \in 1..Len(s) : s[i] = "."}
IntPart(s) ==
  IF Points(s) = {} THEN s
  ELSE SubSeq(s, 1, (CHOOSE i \in Points(s) : TRUE) - 1)
FracPart(s) ==
  IF Points(s) = {} THEN <<>>
  ELSE SubSeq(s, (CHOOSE i \in Points(s) : TRUE) + 1, Len(s))
IsDecimal(s) ==
  LET u == Unsigned(s) IN
    /\ Cardinality(Points(u)) <= 1
    /\ IsDigits(IntPart(u))
    /\ (Points(u) # {} => IsDigits(FracPart(u)))

\* the amount times 100, rounded to the nearest integer (a half rounds up)
MinorUnits(s) ==
  LET u == Unsigned(s)
      m == DigitsValue(IntPart(u) \o FracPart(u))
      d == Pow10(Len(FracPart(u)))
      n == IF Negative(s) THEN 0 - m ELSE m
  IN  (2 * 100 * n + d) \div (2 * d)

priceFromMeta(dom) ==
  LET c == getMetaProp(dom, PriceProp) IN
    IF IsSome(c) /\ IsDecimal(Val(c)) THEN Ok(MinorUnits(Val(c)))
    ELSE Throw("PriceParseError")

getProductJsonLd(dom) ==
  IF dom.ld.kind = "json" THEN Ok(dom.ld) ELSE Throw("MalformedStructuredData")

(***************************************************************************)
(* scraper/dia.ts                                                          *)
(***************************************************************************)
FalsyUndefinedOnly(o) == ~IsSome(o)

\* !ean: undefined, null and "" are falsy
Falsy(o) == ~IsSome(o) \/ Val(o) = ""

LastOfferInStock(ld) ==
  IF ~IsSome(ld.offers) THEN Throw("TypeError")
  ELSE IF ~IsSome(Val(ld.offers).offers) THEN Throw("TypeError")
  ELSE IF Len(Val(Val(ld.offers).offers)) = 0 THEN Throw("TypeError")
  ELSE LET l == Val(Val(ld.offers).offers) IN
         Ok(l[Len(l)].availability = Some(InStockSentinel))

\* ld.offers.offers[0].availability === "http://schema.org/InStock":
\* reading a property of undefined throws a TypeError; a missing
\* availability is undefined, which is not the sentinel
FirstOfferInStock(ld) ==
  IF ~IsSome(ld.offers) THEN Throw("TypeError")
  ELSE IF ~IsSome(Val(ld.offers).offers) THEN Throw("TypeError")
  ELSE IF Len(Val(Val(ld.offers).offers)) = 0 THEN Throw("TypeError")
  ELSE Ok(Val(Val(ld.offers).offers)[1].availability = Some(InStockSentinel))

Precioish(ean, precioCentavos, inStock) ==
  [ean |-> ean, precioCentavos |-> precioCentavos, inStock |-> inStock]

\* the extractor with the structured data's failure caught and the stock guessed
getDiaProductGuessStock(dom) ==
  LET ean == getMetaProp(dom, EanProp) IN
    IF Falsy(ean) THEN Throw("MissingIdentifier")
    ELSE LET precioCentavos == priceFromMeta(dom) IN
      IF ~IsOk(precioCentavos) THEN precioCentavos
      ELSE LET ld == getProductJsonLd(dom) IN
        IF ~IsOk(ld)
        THEN Ok(Precioish(Val(ean), Val(precioCentavos.value), FALSE))
        ELSE LET inStock == FirstOfferInStock(Val(ld.value)) IN
          IF ~IsOk(inStock) THEN inStock
          ELSE Ok(Precioish(Val(ean), Val(precioCentavos.value),
                            Val(inStock.value)))

getDiaProduct(dom) ==
  LET ean == getMetaProp(dom, EanProp) IN
    IF Falsy(ean) THEN Throw("MissingIdentifier")
    ELSE LET precioCentavos == priceFromMeta(dom) IN
      IF ~IsOk(precioCentavos) THEN precioCentavos
      ELSE LET ld == getProductJsonLd(dom) IN
        IF ~IsOk(ld) THEN ld
        ELSE LET inStock == FirstOfferInStock(Val(ld.value)) IN
          IF ~IsOk(inStock) THEN inStock
          ELSE Ok(Precioish(Val(ean), Val(precioCentavos.value),
                            Val(inStock.value)))

(***************************************************************************)
(* Normalization / validation, applied to what an extractor returned       *)
(* before the store accepts it.                                            *)
(***************************************************************************)
ValidateNothing(rec) == Ok(rec)

Validate(rec) ==
  IF rec.ean = "" \/ rec.precioCentavos < 0 THEN Throw("InvalidRecord")
  ELSE Ok(rec)

(***************************************************************************)
(* The precios table (schema) and the writes to it.                        *)
(***************************************************************************)
\* fetched_at: the timestamps the fetcher stamps
Times == 1..MaxTime

\* the values of one insert: precio_centavos, in_stock, url and name are
\* nullable, ean and fetched_at are not; id is assigned by the table
RowValues(rec, fetchedAt, url, name) ==
  [ean |-> rec.ean, fetchedAt |-> fetchedAt,
   precioCentavos |-> Some(rec.precioCentavos), inStock |-> Some(rec.inStock),
   url |-> Some(url), name |-> name]

Row(id, v) ==
  [id |-> id, ean |-> v.ean, fetchedAt |-> v.fetchedAt,
   precioCentavos |-> v.precioCentavos, inStock |-> v.inStock,
   url |-> v.url, name |-> v.name]

NextIdStuck(last) == last

\* primaryKey({ autoIncrement: true }): one more than the largest id ever used
NextId(last) == last + 1

\* INSERT INTO precios: one new row, the others untouched
Insert(table, row) == table \cup {row}

(***************************************************************************)
(* The product page's load (the query, findLast, the 404).                 *)
(***************************************************************************)
WhereAll(table, ean) == table

\* .where(eq(precios.ean, params.ean))
Where(table, ean) == {r \in table : r.ean = ean}

\* .orderBy(precios.fetchedAt): the rows in ascending fetched_at; the query
\* names no second key, so rows of equal fetched_at come in any order
Ascending(s) ==
  \A i, j \in 1..Len(s) : i < j => s[i].fetchedAt <= s[j].fetchedAt
\* the rows in the order of their insertion
OrderById(rows) ==
  {s \in [1..Cardinality(rows) -> rows] :
     \A i, j \in 1..Cardinality(rows) : i < j => s[i].id < s[j].id}

OrderBy(rows) ==
  {s \in [1..Cardinality(rows) -> rows] :
     /\ \A i, j \in 1..Cardinality(rows) : i # j => s[i] # s[j]
     /\ Ascending(s)}

\* (p) => p.name: null, undefined and "" are falsy
HasName(p) == ~Falsy(p.name)

FindFirst(res) ==
  LET hits == {i \in 1..Len(res) : HasName(res[i])} IN
    IF hits = {} THEN None
    ELSE Some(res[CHOOSE i \in hits : \A j \in hits : i <= j])

\* res.findLast(pred): the element of the largest index that satisfies it
FindLast(res) ==
  LET hits == {i \in 1..Len(res) : HasName(res[i])} IN
    IF hits = {} THEN None
    ELSE Some(res[CHOOSE i \in hits : \A j \in hits : j <= i])

(***************************************************************************)
(* The pages the scraper is run on.                                        *)
(***************************************************************************)
Text19990 == <<"1", "9", "9", ".", "9", "0">>
Text1234 == <<"1", "2", ".", "3", "4">>
Text0 == <<"0", ".", "0", "0">>
TextMinus500 == <<"-", "5", ".", "0", "0">>
Offers(l) == LdJson(Some([offers |-> Some(l)]))
InStockOffer == Offer(Some(InStockSentinel))
OutOfStockOffer == Offer(Some(OutOfStockSentinel))

\* a fetched page: its url, the product title stored with its observation
\* (null, empty, or a title), and its document
Page(url, name, e, p, l) == [url |-> url, name |-> name, html |-> Dom(e, p, l)]

PageLeche ==
  Page("dia/leche", Some("Leche entera 1L"), Some("7790001"), Some(Text19990),
       Offers(<<InStockOffer>>))
PageLecheUntitled ==
  Page("dia/leche?v=2", None, Some("7790001"), Some(Text1234),
       Offers(<<OutOfStockOffer, InStockOffer>>))
PagePan ==
  Page("dia/pan", Some("Pan lactal"), Some("7790002"), Some(Text0),
       Offers(<<InStockOffer, OutOfStockOffer>>))
PagePanEmptyTitle ==
  Page("dia/pan?v=2", Some(""), Some("7790002"), Some(Text1234),
       Offers(<<Offer(None)>>))
PageNoEan ==
  Page("dia/sin-ean", Some("Yerba"), None, Some(Text1234),
       Offers(<<InStockOffer>>))
PageNoLd ==
  Page("dia/sin-ld", Some("Leche entera 1L"), Some("7790001"), Some(Text1234),
       LdMissing)
PageNegative ==
  Page("dia/negativo", Some("Pan lactal"), Some("7790002"), Some(TextMinus500),
       Offers(<<InStockOffer>>))
Pages ==
  {PageLeche, PageLecheUntitled, PagePan, PagePanEmptyTitle,
   PageNoEan, PageNoLd, PageNegative}

(***************************************************************************)
(* State.                                                                  *)
(***************************************************************************)
VARIABLES
  html,       \* the document handed to the extractor (SpecExtract)
  extracted,  \* what getDiaProduct returned for it, once it has run
  precios,    \* the rows of the precios table
  lastId,     \* the largest id the table has assigned
  resp,       \* what the handler that ran last answered
  appended    \* history: every row a scraper has handed to the table

vars == <<html, extracted, precios, lastId, resp, appended>>

Resp(op, arg, error, rows, meta, count) ==
  [op |-> op, arg |-> arg, error |-> error, rows |-> rows, meta |-> meta,
   count |-> count]
NoResp == Resp("none", "", "none", <<>>, None, 0)

PageDataNo404(ean, res) == Resp("load", ean, "none", res, FindLast(res), 0)

\* what load answers from the query's result: the 404, or the rows and meta
PageData(ean, res) ==
  IF Len(res) = 0 THEN Resp("load", ean, "NotFound", <<>>, None, 0)
  ELSE Resp("load", ean, "none", res, FindLast(res), 0)

(***************************************************************************)
(* The extractor alone, on every document.                                 *)
(***************************************************************************)
InitExtract ==
  /\ html \in {Some(d) : d \in Docs}
  /\ extracted = None
  /\ precios = {}
  /\ lastId = 0
  /\ resp = NoResp
  /\ appended = {}

Extract ==
  /\ extracted = None
  /\ extracted' = Some(getDiaProduct(Val(html)))
  /\ UNCHANGED <<html, precios, lastId, resp, appended>>

NextExtract == Extract

SpecExtract == InitExtract /\ [][NextExtract]_vars

(***************************************************************************)
(* Scraping into the table, and reading it.  Each insert is atomic, and    *)
(* the scrapers of different pages run in any order: a page fetched later  *)
(* may be inserted earlier.                                                *)
(***************************************************************************)
Init ==
  /\ html = None
  /\ extracted = None
  /\ precios = {}
  /\ lastId = 0
  /\ resp = NoResp
  /\ appended = {}

\* one page through the pipeline: extract, validate, stamp, insert
Scrape(page, fetchedAt) ==
  /\ Cardinality(precios) < MaxRows
  /\ LET ex == getDiaProduct(page.html)
         ok == IF IsOk(ex) THEN Validate(Val(ex.value)) ELSE ex
     IN  /\ resp' = Resp("scrape", page.url, ok.error, <<>>, None, 0)
         /\ IF IsOk(ok)
            THEN /\ precios' =
                      Insert(precios,
                             Row(NextId(lastId),
                                 RowValues(Val(ok.value), fetchedAt,
                                           page.url, page.name)))
                 /\ lastId' = NextId(lastId)
                 /\ appended' =
                      appended \cup
                        {Row(lastId + 1,
                             RowValues(Val(ok.value), fetchedAt,
                                       page.url, page.name))}
            ELSE UNCHANGED <<precios, lastId, appended>>
  /\ UNCHANGED <<html, extracted>>

\* GET of a product page
Load(ean) ==
  /\ \E res \in OrderBy(Where(precios, ean)) :
       resp' = PageData(ean, res)
  /\ UNCHANGED <<html, extracted, precios, lastId, appended>>

\* GET of the home page: the table's row count from the engine's statistics,
\* which are those of some earlier moment of the table
Count ==
  /\ \E n \in 0..Cardinality(precios) :
       resp' = Resp("count", "", "none", <<>>, None, n)
  /\ UNCHANGED <<html, extracted, precios, lastId, appended>>

Next ==
  \/ \E page \in Pages, t \in Times : Scrape(page, t)
  \/ \E ean \in EANs : Load(ean)
  \/ Count

Spec == Init /\ [][Next]_vars

(***************************************************************************)
(* Properties.                                                             *)
(***************************************************************************)
\* price texts that are decimal amounts, each with its minor units
PriceFixtures ==
  { <<Text19990, 19990>>, <<Text1234, 1234>>, <<Text0, 0>>,
    <<<<"7">>, 700>>, <<<<"0", ".", "0", "0", "5">>, 1>>,
    <<TextMinus500, 0 - 500>> }

EanOf(d) == d.meta[EanProp]
PriceOf(d) == d.meta[PriceProp]

\* C1: a document whose EAN meta tag is missing or has an empty content fails
\* with MissingIdentifier and yields no record, whatever its price meta tag
\* and its JSON-LD block are.
C1_MissingEanFails ==
  (IsSome(extracted) /\ EanOf(Val(html)) \in {None, Some("")})
    => /\ Val(extracted).error = "MissingIdentifier"
       /\ Val(extracted).value = None

C1_Witness ==
  /\ IsSome(extracted)
  /\ Val(html) = Dom(Some(""), Some(Text19990), Offers(<<InStockOffer>>))
  /\ Val(extracted) = Throw("MissingIdentifier")

\* C2: a document with an EAN and a decimal price whose JSON-LD block is
\* missing or is no JSON fails with MalformedStructuredData and yields no
\* record: never a record with a guessed inStock, never another error.
C2_MalformedLdFails ==
  (/\ IsSome(extracted)
   /\ EanOf(Val(html)) \in {Some(e) : e \in EANs}
   /\ PriceOf(Val(html)) \in {Some(f[1]) : f \in PriceFixtures}
   /\ Val(html).ld.kind \in {"missing", "unparseable"})
    => /\ Val(extracted).error = "MalformedStructuredData"
       /\ Val(extracted).value = None

C2_Witness ==
  /\ IsSome(extracted)
  /\ Val(html) = Dom(Some("7790001"), Some(Text19990), LdUnparseable)
  /\ Val(extracted) = Throw("MalformedStructuredData")

\* C3: for an EAN e, a decimal price and a JSON-LD block with at least one
\* offer, the extractor returns exactly {ean: e, precioCentavos: the minor
\* units of the price, inStock: b}, where b says whether the availability of
\* the first offer is "http://schema.org/InStock"; later offers change nothing.
C3_RecordFromFirstOffer ==
  \A e \in EANs, f \in PriceFixtures, l \in OfferLists \ {<<>>} :
    (IsSome(extracted) /\ Val(html) = Dom(Some(e), Some(f[1]), Offers(l)))
      => Val(extracted) =
           Ok([ean |-> e, precioCentavos |-> f[2],
               inStock |-> (l[1].availability = Some(InStockSentinel))])

C3_Witness ==
  /\ IsSome(extracted)
  /\ Val(html) = Dom(Some("7790001"), Some(Text19990),
                     Offers(<<InStockOffer, OutOfStockOffer>>))
  /\ Val(extracted) =
       Ok([ean |-> "7790001", precioCentavos |-> 19990, inStock |-> TRUE])

RowsOf(ean) == {r \in appended : r.ean = ean}
Range(s) == {s[i] : i \in 1..Len(s)}

\* C4: the history a page load returns lists all the rows of the EAN in
\* ascending fetchedAt, whatever the order they were inserted in.
C4_HistoryAscending ==
  resp.op = "load"
    => /\ Len(resp.rows) = Cardinality(RowsOf(resp.arg))
       /\ \A i, j \in 1..Len(resp.rows) :
            i < j => resp.rows[i].fetchedAt <= resp.rows[j].fetchedAt

\* three rows of one EAN inserted in the order T2, T3, T1 and read as T1, T2, T3
C4_Witness ==
  /\ resp.op = "load"
  /\ Len(resp.rows) = 3
  /\ resp.rows[1].fetchedAt < resp.rows[2].fetchedAt
  /\ resp.rows[2].fetchedAt < resp.rows[3].fetchedAt
  /\ resp.rows[1].id = 3
  /\ resp.rows[2].id = 1
  /\ resp.rows[3].id = 2

\* C5: rows of one EAN with equal fetchedAt are listed in insertion order,
\* the row of the smaller identity first.
C5_TiesByIdentity ==
  resp.op = "load"
    => \A i, j \in 1..Len(resp.rows) :
         (i < j /\ resp.rows[i].fetchedAt = resp.rows[j].fetchedAt)
           => resp.rows[i].id < resp.rows[j].id

Named(ean) == {r \in RowsOf(ean) : IsSome(r.name) /\ Val(r.name) # ""}

C7_NotFoundIffNoRows ==
  resp.op = "load"
    => /\ (resp.error = "NotFound") <=> (RowsOf(resp.arg) = {})
       /\ resp.error = "NotFound" => (resp.rows = <<>> /\ resp.meta = None)
       /\ resp.error = "none" => Len(resp.rows) > 0

\* NotFound for one EAN while the table holds rows of the other
C7_Witness ==
  /\ resp.op = "load"
  /\ resp.error = "NotFound"
  /\ appended # {}

\* C8: the history read for an EAN holds exactly the rows appended with that
\* EAN, each once, and no row appended with another EAN, however the appends
\* for the two EANs interleave.
C8_NoCrossContamination ==
  resp.op = "load"
    => /\ Range(resp.rows) = RowsOf(resp.arg)
       /\ \A i, j \in 1..Len(resp.rows) : i # j => resp.rows[i] # resp.rows[j]
       /\ \A i \in 1..Len(resp.rows) : resp.rows[i].ean = resp.arg

\* appends for the two EANs interleaved: A, B, A
C8_Witness ==
  /\ resp.op = "load"
  /\ Len(resp.rows) = 2
  /\ {resp.rows[1].id, resp.rows[2].id} = {1, 3}
  /\ \E r \in appended : r.id = 2 /\ r.ean # resp.arg

SameObservation(r, q) ==
  /\ r.ean = q.ean
  /\ r.fetchedAt = q.fetchedAt
  /\ r.precioCentavos = q.precioCentavos
  /\ r.inStock = q.inStock
  /\ r.url = q.url
  /\ r.name = q.name

\* C9: the table is append-only: every step keeps every row as it was, a
\* successful scrape adds exactly one row, of an identity no row has had, and
\* the reads (page load, count) leave the table as it is.
C9_AppendOnly ==
  [][/\ precios \subseteq precios'
     /\ \A r \in precios' \ precios : \A q \in precios : q.id # r.id
     /\ (resp'.op = "scrape" /\ resp'.error = "none")
          => Cardinality(precios') = Cardinality(precios) + 1
     /\ resp'.op \in {"load", "count"} => precios' = precios]_vars

\* the same observation appended twice and kept as two rows, then read
C9_Witness ==
  /\ resp.op = "load"
  /\ \E r, q \in precios : r.id # q.id /\ SameObservation(r, q)

\* C10: every row of the table has a non-empty ean and a precioCentavos that
\* is absent or not negative; a record with a negative precioCentavos is
\* rejected with InvalidRecord and leaves the table as it was.
C10_RowsValid ==
  [][/\ \A r \in precios' :
          /\ r.ean # ""
          /\ IsSome(r.precioCentavos) => Val(r.precioCentavos) >= 0
     /\ (resp'.op = "scrape" /\ resp'.arg = PageNegative.url)
          => resp'.error = "InvalidRecord"
     /\ resp'.error = "InvalidRecord" => precios' = precios]_vars

C10_Witness ==
  /\ resp.op = "scrape"
  /\ resp.arg = PageNegative.url
  /\ resp.error = "InvalidRecord"
  /\ precios # {}
====
